---- MODULE Spec2Model ----
(***************************************************************************)
(* A model of the eventual actor framework: the typed ports of             *)
(* eventual/__init__.py (Event, Value and Sync), their attach / detach     *)
(* lifecycle, and the RoundRobinMutex coordinator of eventual/actors.py.   *)
(*                                                                         *)
(* Every port is a pair <<attribute name, owner number>>.  Propagation is  *)
(* synchronous and recursive in the source, so each operator below maps a  *)
(* record of the whole mutable state to the record after the call, and an  *)
(* action is one top-level call made by collaborator code.                 *)
(***************************************************************************)
EXTENDS Integers, Sequences, FiniteSets, TLC

\* ------------------------------------------------------------------------
\* Bounds
\* ------------------------------------------------------------------------
\* largest number of slots the coordinator holds at once
MaxChildren == 3

\* largest number of entries in one output's down list
MaxDown == 2

\* last reading of the monotonic clock
MaxTime == 7

\* ------------------------------------------------------------------------
\* Objects
\* ------------------------------------------------------------------------
None == <<"None", 0>>

\* MutexTester.lock of t0, t1, t2
Requesters == {<<"lock", 0>>, <<"lock", 1>>, <<"lock", 2>>}

\* _RoundRobinMutexChild.mutex, one per live child object
Slots == {<<"mutex", k>> : k \in 1..MaxChildren}

\* Thing.go of x, y, z
GoPorts == {<<"go", 0>>, <<"go", 1>>, <<"go", 2>>}

SyncPorts == Requesters \cup Slots \cup GoPorts

\* Thing.my_status and Thing.hello of x, y
ValueOutputs == {<<"my_status", 0>>, <<"my_status", 1>>}

EventOutputs == {<<"hello", 0>>, <<"hello", 1>>}

Outputs == ValueOutputs \cup EventOutputs

\* Thing.status and Thing.hey of x, y
ValueInputs == {<<"status", 0>>, <<"status", 1>>}

EventInputs == {<<"hey", 0>>, <<"hey", 1>>}

Inputs == ValueInputs \cup EventInputs

\* ValueOutput(None), and the values and the event the tests push
initial == "None"

Values == {"10", "20"}

Events == {"h"}

\* IntervalTimer(mgr, 2) and LogEvent(mgr) of the module's main block
TimerTrigger == <<"trigger", 0>>

TimerLate == <<"late", 0>>

TimerActive == <<"active", 0>>

LogEventIn == <<"event_in", 0>>

LogEventOut == <<"event_out", 0>>

\* the instances of each input class
ValueInputInstances == ValueInputs \cup {TimerActive}

EventInputInstances == EventInputs \cup {LogEventIn}

\* interval_sec of the timer
Interval == 2

\* next_event is None
NoEvent == -1

NoExc == "none"

VARIABLES
    peer,       \* SyncInstance.peer of every Sync port
    want,       \* SyncInstance.want of every Sync port
    children,   \* RoundRobinMutex.children
    pos,        \* RoundRobinMutex.pos
    locked,     \* RoundRobinMutex.locked.val
    up,         \* InputInstance.up of every input
    down,       \* down of every output, a list
    val,        \* ValueOutputInstance.val of every value output
    now,        \* time.monotonic()
    queue,      \* the times of the events in mgr.scheduler's queue
    next_event, \* IntervalTimer.next_event: the time of the event held, or NoEvent
    next_event_time_sec,    \* IntervalTimer.next_event_time_sec
    trace,      \* handler and after_detach invocations made by the last call, in order
    err,        \* the exception the last call raised, or NoExc
    last,       \* the last call: <<operation, port, argument>>
    bypass      \* per slot: grants to other slots while it has been waiting

vars == <<peer, want, children, pos, locked, up, down, val, now, queue, next_event,
          next_event_time_sec, trace, err, last, bypass>>

\* the mutable state of the program as one record
State ==
    [peer |-> peer, want |-> want, children |-> children, pos |-> pos,
     locked |-> locked, up |-> up, down |-> down, val |-> val,
     now |-> now, queue |-> queue, next_event |-> next_event,
     next_event_time_sec |-> next_event_time_sec,
     trace |-> <<>>, exc |-> NoExc]

\* raise e: the state as it is when the exception starts to propagate
Raise(st, e) == [st EXCEPT !.exc = e]

\* Statement sequencing: F runs on the state its predecessor e has produced,
\* unless e raised, and then the exception propagates.  e is evaluated once.
Then(e, F(_)) == CHOOSE y \in {IF x.exc = NoExc THEN F(x) ELSE x : x \in {e}} : TRUE

\* list.index, 0-based: the first occurrence; the element is present
Index(seq, x) ==
    (CHOOSE k \in 1..Len(seq) : seq[k] = x /\ \A j \in 1..(k - 1) : seq[j] # x) - 1

InSeq(seq, x) == \E k \in 1..Len(seq) : seq[k] = x

\* list.pop(i), 0-based
Pop(seq, i) == [k \in 1..(Len(seq) - 1) |-> IF k <= i THEN seq[k] ELSE seq[k + 1]]

\* ------------------------------------------------------------------------
\* Sync ports (eventual/__init__.py) and RoundRobinMutex (eventual/actors.py)
\* ------------------------------------------------------------------------
RECURSIVE SyncCall(_, _, _), CallSyncHandler(_, _, _), mutex(_, _, _), ReleaseScan(_, _)

\* SyncInstance.__call__: store the want, then run the peer's handler
SyncCall(st0, p, w) ==
    Then([st0 EXCEPT !.want[p] = w], LAMBDA st :
        IF st.peer[p] # None THEN CallSyncHandler(st, st.peer[p], w) ELSE st)

\* the loop given up after the first slot that does not want the lock
ReleaseScanFirstOnly(st0, i) ==
    Then(st0, LAMBDA st :
        LET p1 == st.pos + 1
            p2 == IF p1 = Len(st.children) THEN 0 ELSE p1
            s1 == [st EXCEPT !.pos = p2]
        IN  IF p2 = i
            THEN [s1 EXCEPT !.locked = FALSE]
            ELSE IF p2 >= Len(st.children)
            THEN Raise(s1, "IndexError")
            ELSE IF st.peer[st.children[p2 + 1]] = None
            THEN Raise(s1, "AttributeError")
            ELSE IF st.want[st.peer[st.children[p2 + 1]]]
            THEN SyncCall(s1, st.children[p2 + 1], TRUE)
            ELSE [s1 EXCEPT !.pos = i, !.locked = FALSE])

\* the while loop of RoundRobinMutex.mutex; i is the releasing slot's index
ReleaseScan(st0, i) ==
    Then(st0, LAMBDA st :
        LET p1 == st.pos + 1
            p2 == IF p1 = Len(st.children) THEN 0 ELSE p1
            s1 == [st EXCEPT !.pos = p2]
        IN  IF p2 = i
            THEN [s1 EXCEPT !.locked = FALSE]
            ELSE IF p2 >= Len(st.children)
            THEN Raise(s1, "IndexError")
            ELSE IF st.peer[st.children[p2 + 1]] = None
            THEN Raise(s1, "AttributeError")
            ELSE IF st.want[st.peer[st.children[p2 + 1]]]
            THEN SyncCall(s1, st.children[p2 + 1], TRUE)
            ELSE ReleaseScan(s1, i))

\* mutex with the test of locked.val left out of the grant branch
mutexNoLockTest(st0, child, w) ==
    Then(st0, LAMBDA st :
        IF ~InSeq(st.children, child)
        THEN Raise(st, "ValueError")
        ELSE LET i == Index(st.children, child)
             IN  IF w /\ ~st.want[child]
                 THEN SyncCall([st EXCEPT !.pos = i, !.locked = TRUE], child, TRUE)
                 ELSE IF ~w /\ st.want[child]
                 THEN ReleaseScan(SyncCall(st, child, FALSE), i)
                 ELSE st)

\* mutex with pos left one past the granted slot
mutexPosAfter(st0, child, w) ==
    Then(st0, LAMBDA st :
        IF ~InSeq(st.children, child)
        THEN Raise(st, "ValueError")
        ELSE LET i == Index(st.children, child)
             IN  IF w /\ ~st.locked
                 THEN IF st.want[child]
                      THEN Raise(st, "AssertionError")
                      ELSE SyncCall([st EXCEPT !.pos = (i + 1) % Len(st.children),
                                               !.locked = TRUE], child, TRUE)
                 ELSE IF ~w /\ st.want[child]
                 THEN ReleaseScan(SyncCall(st, child, FALSE), i)
                 ELSE st)

\* mutex with every release scan started at the head of the list
mutexScanFromHead(st0, child, w) ==
    Then(st0, LAMBDA st :
        IF ~InSeq(st.children, child)
        THEN Raise(st, "ValueError")
        ELSE LET i == Index(st.children, child)
             IN  IF w /\ ~st.locked
                 THEN IF st.want[child]
                      THEN Raise(st, "AssertionError")
                      ELSE SyncCall([st EXCEPT !.pos = i, !.locked = TRUE], child, TRUE)
                 ELSE IF ~w /\ st.want[child]
                 THEN Then(SyncCall(st, child, FALSE), LAMBDA s1 :
                          ReleaseScan([s1 EXCEPT !.pos = -1], i))
                 ELSE st)

\* mutex releasing on want = false from any slot, holder or not
mutexReleaseByAnyone(st0, child, w) ==
    Then(st0, LAMBDA st :
        IF ~InSeq(st.children, child)
        THEN Raise(st, "ValueError")
        ELSE LET i == Index(st.children, child)
             IN  IF w /\ ~st.locked
                 THEN IF st.want[child]
                      THEN Raise(st, "AssertionError")
                      ELSE SyncCall([st EXCEPT !.pos = i, !.locked = TRUE], child, TRUE)
                 ELSE IF ~w
                 THEN ReleaseScan(SyncCall(st, child, FALSE), i)
                 ELSE st)

\* mutex granting without the assignment self.pos = i
mutexPosKept(st0, child, w) ==
    Then(st0, LAMBDA st :
        IF ~InSeq(st.children, child)
        THEN Raise(st, "ValueError")
        ELSE LET i == Index(st.children, child)
             IN  IF w /\ ~st.locked
                 THEN IF st.want[child]
                      THEN Raise(st, "AssertionError")
                      ELSE SyncCall([st EXCEPT !.locked = TRUE], child, TRUE)
                 ELSE IF ~w /\ st.want[child]
                 THEN ReleaseScan(SyncCall(st, child, FALSE), i)
                 ELSE st)

\* mutex granting without the push child.mutex(True)
mutexGrantSilent(st0, child, w) ==
    Then(st0, LAMBDA st :
        IF ~InSeq(st.children, child)
        THEN Raise(st, "ValueError")
        ELSE LET i == Index(st.children, child)
             IN  IF w /\ ~st.locked
                 THEN IF st.want[child]
                      THEN Raise(st, "AssertionError")
                      ELSE [st EXCEPT !.pos = i, !.locked = TRUE]
                 ELSE IF ~w /\ st.want[child]
                 THEN ReleaseScan(SyncCall(st, child, FALSE), i)
                 ELSE st)

\* RoundRobinMutex.mutex(child, want)
mutex(st0, child, w) ==
    Then(st0, LAMBDA st :
        IF ~InSeq(st.children, child)
        THEN Raise(st, "ValueError")
        ELSE LET i == Index(st.children, child)
             IN  IF w /\ ~st.locked
                 THEN IF st.want[child]
                      THEN Raise(st, "AssertionError")
                      ELSE SyncCall([st EXCEPT !.pos = i, !.locked = TRUE], child, TRUE)
                 ELSE IF ~w /\ st.want[child]
                 THEN ReleaseScan(SyncCall(st, child, FALSE), i)
                 ELSE st)

\* self.peer.f(self.peer.actor, want): the handler of the port q, by its owner.
\* _RoundRobinMutexChild.mutex forwards to its parent; MutexTester.lock passes.
CallSyncHandler(st0, q, w) ==
    Then([st0 EXCEPT !.trace = Append(@, <<"f", q, w>>)], LAMBDA st :
        IF q \in Slots THEN mutex(st, q, w) ELSE st)

\* SyncInstance.attach without its last statement, self(peer.want)
SyncAttachOneCall(st0, self, other) ==
    Then(st0, LAMBDA st :
        IF st.peer[self] # None
        THEN Raise(st, "Port is already connected")
        ELSE IF other \notin SyncPorts
        THEN Raise(st, "Can't connect")
        ELSE SyncCall([st EXCEPT !.peer[other] = self, !.peer[self] = other],
                      other, st.want[self]))

\* SyncInstance.attach(self, other)
SyncAttach(st0, self, other) ==
    Then(st0, LAMBDA st :
        IF st.peer[self] # None
        THEN Raise(st, "Port is already connected")
        ELSE IF other \notin SyncPorts
        THEN Raise(st, "Can't connect")
        ELSE Then(SyncCall([st EXCEPT !.peer[other] = self, !.peer[self] = other],
                           other, st.want[self]),
                  LAMBDA s2 : SyncCall(s2, self, s2.want[other])))

\* the removal of a child without the adjustment of pos
PopChildKeepsPos(st0, i) ==
    Then([st0 EXCEPT !.children = Pop(@, i)], LAMBDA st :
        IF st.pos > Len(st.children) THEN Raise(st, "AssertionError")
        ELSE IF st.pos = Len(st.children) THEN [st EXCEPT !.pos = 0]
        ELSE st)

\* the tail of after_detach_child: pop the child and keep pos in step
PopChild(st0, i) ==
    Then([st0 EXCEPT !.children = Pop(@, i),
                     !.pos = IF @ > i THEN @ - 1 ELSE @], LAMBDA st :
        IF st.pos > Len(st.children) THEN Raise(st, "AssertionError")
        ELSE IF st.pos = Len(st.children) THEN [st EXCEPT !.pos = 0]
        ELSE st)

\* after_detach_child without the release of a lock the child holds
after_detach_childNoRelease(st0, child) ==
    Then(st0, LAMBDA st :
        IF ~InSeq(st.children, child)
        THEN Raise(st, "ValueError")
        ELSE PopChild(st, Index(st.children, child)))

\* RoundRobinMutex.after_detach_child(child)
after_detach_child(st0, child) ==
    Then(st0, LAMBDA st :
        IF ~InSeq(st.children, child)
        THEN Raise(st, "ValueError")
        ELSE LET i == Index(st.children, child)
             IN  IF st.locked /\ st.want[child]
                 THEN IF st.pos # i
                      THEN Raise(st, "AssertionError")
                      ELSE PopChild(mutex(st, child, FALSE), i)
                 ELSE PopChild(st, i))

\* what the port holds of its connections: peer, up or down
Wiring(st, port) ==
    IF port \in DOMAIN st.peer THEN st.peer[port]
    ELSE IF port \in DOMAIN st.up THEN st.up[port]
    ELSE st.down[port]

\* port.actor.after_detach(port): _RoundRobinMutexChild.after_detach tells the
\* parent; Actor.after_detach passes.  The hook is recorded with what it
\* finds in the port.
AfterDetach(st0, port) ==
    Then([st0 EXCEPT !.trace = Append(@, <<"after_detach", port, Wiring(st0, port)>>)], LAMBDA st :
        IF port \in Slots THEN after_detach_child(st, port) ELSE st)

\* SyncInstance.detach(self)
SyncDetach(st0, self) ==
    Then(st0, LAMBDA st :
        IF st.peer[self] = None
        THEN Raise(st, "AttributeError")
        ELSE Then(AfterDetach([st EXCEPT !.peer[st.peer[self]] = None], st.peer[self]),
                  LAMBDA s1 : AfterDetach([s1 EXCEPT !.peer[self] = None], self)))

\* SyncInstance.val: the granted value, or the exception raised
SyncVal(st, p) ==
    IF st.peer[p] = None THEN "PortNotConnected"
    ELSE IF st.want[p] /\ st.want[st.peer[p]] THEN "True" ELSE "False"

\* ------------------------------------------------------------------------
\* Event and Value ports (eventual/__init__.py)
\* ------------------------------------------------------------------------
RECURSIVE InputCall(_, _, _), Deliver(_, _, _, _), DetachDowns(_, _, _)

\* for d in self.down: d(thing), from the k-th entry of the list on
Deliver(st0, o, k, thing) ==
    Then(st0, LAMBDA st :
        IF k > Len(st.down[o]) THEN st
        ELSE Deliver(InputCall(st, st.down[o][k], thing), o, k + 1, thing))

\* output(ev) on an event output of the timer or of LogEvent, the emission
\* recorded
Emit(st0, o, ev) ==
    Deliver([st0 EXCEPT !.trace = Append(@, <<"emit", o, ev>>)], o, 1, ev)

\* Event(None, timestamp)
Event(timestamp) == <<"Event", timestamp>>

\* _on_expire taking a wake at exactly the advanced expiry for a late one
on_expireLateOnTime(st0) ==
    Then(st0, LAMBDA st :
        LET advanced == st.next_event_time_sec + Interval
            isLate == advanced <= st.now
            next == IF isLate THEN st.now + Interval ELSE advanced
            s1 == [st EXCEPT !.next_event_time_sec = next]
        IN  Then(IF isLate THEN Emit(s1, TimerLate, Event(st.now)) ELSE s1,
                 LAMBDA s2 :
                     Emit([s2 EXCEPT !.queue = @ \cup {next}, !.next_event = next],
                          TimerTrigger, Event(s2.now))))

\* IntervalTimer._on_expire; the clock does not advance during a call
on_expire(st0) ==
    Then(st0, LAMBDA st :
        LET advanced == st.next_event_time_sec + Interval
            isLate == advanced < st.now
            next == IF isLate THEN st.now + Interval ELSE advanced
            s1 == [st EXCEPT !.next_event_time_sec = next]
        IN  Then(IF isLate THEN Emit(s1, TimerLate, Event(st.now)) ELSE s1,
                 LAMBDA s2 :
                     Emit([s2 EXCEPT !.queue = @ \cup {next}, !.next_event = next],
                          TimerTrigger, Event(s2.now))))

\* active(val) starting the timer anew on every active(True)
activeRestarts(st0, v) ==
    Then(st0, LAMBDA st :
        IF v
        THEN on_expire([st EXCEPT !.next_event_time_sec = st.now])
        ELSE IF st.next_event # NoEvent
             THEN IF st.next_event \in st.queue
                  THEN [st EXCEPT !.queue = @ \ {st.next_event}, !.next_event = NoEvent]
                  ELSE Raise(st, "ValueError")
             ELSE st)

\* active(val) clearing the handle without cancelling the event
activeNoCancel(st0, v) ==
    Then(st0, LAMBDA st :
        IF v
        THEN IF st.next_event = NoEvent
             THEN on_expire([st EXCEPT !.next_event_time_sec = st.now])
             ELSE st
        ELSE IF st.next_event # NoEvent
             THEN [st EXCEPT !.next_event = NoEvent]
             ELSE st)

\* IntervalTimer.active(val); scheduler.cancel raises ValueError for an event
\* that is not in the queue
active(st0, v) ==
    Then(st0, LAMBDA st :
        IF v
        THEN IF st.next_event = NoEvent
             THEN on_expire([st EXCEPT !.next_event_time_sec = st.now])
             ELSE st
        ELSE IF st.next_event # NoEvent
             THEN IF st.next_event \in st.queue
                  THEN [st EXCEPT !.queue = @ \ {st.next_event}, !.next_event = NoEvent]
                  ELSE Raise(st, "ValueError")
             ELSE st)

\* LogEvent.event_in(ev)
event_in(st0, ev) == Emit(st0, LogEventOut, ev)

\* InputInstance.__call__: self.f(self.actor, thing).  Thing.status and
\* Thing.hey count the call and touch no port.
InputCall(st0, d, thing) ==
    Then([st0 EXCEPT !.trace = Append(@, <<"f", d, thing>>)], LAMBDA st :
        IF d = TimerActive THEN active(st, thing)
        ELSE IF d = LogEventIn THEN event_in(st, thing)
        ELSE st)

\* ValueOutputInstance.attach without its last statement, down(self.val)
ValueOutputAttachNoReplay(st0, self, d) ==
    Then(st0, LAMBDA st :
        IF d \notin ValueInputInstances THEN Raise(st, "NameError")
        ELSE [st EXCEPT !.up[d] = self, !.down[self] = Append(@, d)])

\* ValueOutputInstance.attach without its isinstance test
ValueOutputAttachNoKindCheck(st0, self, d) ==
    Then(st0, LAMBDA st :
        InputCall([st EXCEPT !.up[d] = self, !.down[self] = Append(@, d)],
                  d, st.val[self]))

\* ValueOutputInstance.attach(self, down).  The message of the kind error
\* names an undefined variable, so building it raises NameError.
ValueOutputAttach(st0, self, d) ==
    Then(st0, LAMBDA st :
        IF d \notin ValueInputInstances THEN Raise(st, "NameError")
        ELSE InputCall([st EXCEPT !.up[d] = self, !.down[self] = Append(@, d)],
                       d, st.val[self]))

\* EventOutputInstance.attach(self, down)
EventOutputAttach(st0, self, d) ==
    Then(st0, LAMBDA st :
        IF d \notin EventInputInstances THEN Raise(st, "NameError")
        ELSE [st EXCEPT !.up[d] = self, !.down[self] = Append(@, d)])

\* output.attach(d), by the class of the output
OutputAttach(st0, o, d) ==
    IF o \in ValueOutputs THEN ValueOutputAttach(st0, o, d) ELSE EventOutputAttach(st0, o, d)

\* ValueInputInstance.attach(self, up) and EventInputInstance.attach(self, up):
\* up.attach(self), by the class of up.  Two inputs call each other's attach
\* until the interpreter's recursion limit.
InputAttach(st0, self, o) ==
    IF o \in Outputs THEN OutputAttach(st0, o, self)
    ELSE IF o \in SyncPorts THEN SyncAttach(st0, o, self)
    ELSE Raise(st0, "RecursionError")

\* a.attach(b), by the class of a
PortInstanceAttach(st0, a, b) ==
    IF a \in Outputs THEN OutputAttach(st0, a, b)
    ELSE IF a \in SyncPorts THEN SyncAttach(st0, a, b)
    ELSE InputAttach(st0, a, b)

\* for down in self.down: down.up = None; down.actor.after_detach(down)
DetachDowns(st0, o, k) ==
    Then(st0, LAMBDA st :
        IF k > Len(st.down[o]) THEN st
        ELSE DetachDowns(AfterDetach([st EXCEPT !.up[st.down[o][k]] = None], st.down[o][k]),
                         o, k + 1))

\* the detach of an output without its statement self.down = []
OutputDetachKeepsDown(st0, self) ==
    Then(DetachDowns(st0, self, 1), LAMBDA st : AfterDetach(st, self))

\* EventOutputInstance.detach(self) and ValueOutputInstance.detach(self)
OutputDetach(st0, self) ==
    Then(DetachDowns(st0, self, 1), LAMBDA st :
        AfterDetach([st EXCEPT !.down[self] = <<>>], self))

\* the detach of an input without its statement self.up = None
InputDetachKeepsUp(st0, self) ==
    Then(st0, LAMBDA st :
        IF st.up[self] = None THEN Raise(st, "AttributeError")
        ELSE IF ~InSeq(st.down[st.up[self]], self) THEN Raise(st, "ValueError")
        ELSE Then(AfterDetach([st EXCEPT !.down[st.up[self]] = Pop(@, Index(@, self))],
                              st.up[self]),
                  LAMBDA s1 : AfterDetach(s1, self)))

\* EventInputInstance.detach(self) and ValueInputInstance.detach(self)
InputDetach(st0, self) ==
    Then(st0, LAMBDA st :
        IF st.up[self] = None THEN Raise(st, "AttributeError")
        ELSE IF ~InSeq(st.down[st.up[self]], self) THEN Raise(st, "ValueError")
        ELSE Then(AfterDetach([st EXCEPT !.down[st.up[self]] = Pop(@, Index(@, self))],
                              st.up[self]),
                  LAMBDA s1 : AfterDetach([s1 EXCEPT !.up[self] = None], self)))

\* ValueOutputInstance.__call__(self, val)
ValueOutputCall(st0, self, v) == Deliver([st0 EXCEPT !.val[self] = v], self, 1, v)

\* EventOutputInstance.__call__(self, ev)
EventOutputCall(st0, self, ev) == Deliver(st0, self, 1, ev)

\* ValueInputInstance.val: the value read, or the exception raised
ValueInputVal(st, d) ==
    IF st.up[d] = None THEN "PortNotConnected" ELSE st.val[st.up[d]]

\* the child object attach_child constructs: any object not in use
NewChild(st) ==
    CHOOSE c \in Slots :
        /\ ~InSeq(st.children, c)
        /\ \A d \in Slots : ~InSeq(st.children, d) => d[2] >= c[2]

\* RoundRobinMutex.attach_child(mutex=r)
attach_child(st0, r) ==
    Then(st0, LAMBDA st :
        SyncAttach([st EXCEPT !.children = Append(@, NewChild(st))], NewChild(st), r))

\* ------------------------------------------------------------------------
\* Bookkeeping shared by the actions
\* ------------------------------------------------------------------------
\* the slot waits: its requester wants the lock and the slot is not granted
Waiting(st, c) ==
    /\ InSeq(st.children, c)
    /\ st.peer[c] # None
    /\ st.want[st.peer[c]]
    /\ ~st.want[c]

\* a slot other than c went from not granted to granted in the step to st
GrantedOther(st, c) == \E d \in Slots \ {c} : ~want[d] /\ st.want[d]

BypassCap == MaxChildren + 1

\* grants to other slots since c began to wait, counted while membership is fixed
NextBypass(st) ==
    IF st.children # children
    THEN [c \in Slots |-> 0]
    ELSE LET before == State
         IN  [c \in Slots |->
                 IF ~Waiting(st, c) THEN 0
                 ELSE IF Waiting(before, c) /\ GrantedOther(st, c)
                 THEN IF bypass[c] < BypassCap THEN bypass[c] + 1 ELSE BypassCap
                 ELSE bypass[c]]

\* Child objects have no name in the source beyond their place in children, so
\* every state is stored with the k-th child named <<"mutex", k>>.  Rank gives
\* the name an object of st gets: its place in children, the unused objects
\* after them in their old order.
Rank(st, c) ==
    IF InSeq(st.children, c)
    THEN Index(st.children, c) + 1
    ELSE Len(st.children)
         + Cardinality({d \in Slots : ~InSeq(st.children, d) /\ d[2] <= c[2]})

Renamed(st, p) == IF p \in Slots THEN <<"mutex", Rank(st, p)>> ELSE p

\* the object of st that is stored under the name q
Unrenamed(st, q) == IF q \in Slots THEN CHOOSE c \in Slots : Rank(st, c) = q[2] ELSE q

InOrder(n) == [k \in 1..n |-> <<"mutex", k>>]

\* st with its child objects renamed into list order
Canonical(st) ==
    IF st.children = InOrder(Len(st.children))
    THEN st
    ELSE LET old == [q \in SyncPorts |-> Unrenamed(st, q)]
             new == [p \in SyncPorts \cup {None} |-> Renamed(st, p)]
         IN  [st EXCEPT !.peer = [q \in SyncPorts |-> new[st.peer[old[q]]]],
                        !.want = [q \in SyncPorts |-> st.want[old[q]]],
                        !.children = InOrder(Len(st.children))]

\* the program's state after a call, with the record of the call; trace and
\* last keep the names of the state the call started from
Commit(result, op) ==
    /\ last' = op
    /\ \E st \in {result} :
       \E cs \in {Canonical(st)}, nb \in {NextBypass(st)} :
           /\ peer' = cs.peer
           /\ want' = cs.want
           /\ children' = cs.children
           /\ pos' = cs.pos
           /\ locked' = cs.locked
           /\ up' = cs.up
           /\ down' = cs.down
           /\ val' = cs.val
           /\ now' = cs.now
           /\ queue' = cs.queue
           /\ next_event' = cs.next_event
           /\ next_event_time_sec' = cs.next_event_time_sec
           /\ trace' = cs.trace
           /\ err' = cs.exc
           /\ bypass' = IF cs.children = st.children
                         THEN nb
                         ELSE [q \in Slots |-> nb[Unrenamed(st, q)]]

\* ------------------------------------------------------------------------
\* The state after construction, and the coordinator driven by its requesters
\* ------------------------------------------------------------------------
Init ==
    /\ peer = [p \in SyncPorts |-> None]
    /\ want = [p \in SyncPorts |-> FALSE]
    /\ children = <<>>
    /\ pos = 0
    /\ locked = FALSE
    /\ up = [d \in Inputs \cup {TimerActive, LogEventIn} |-> None]
    /\ down = [o \in Outputs \cup {TimerTrigger, TimerLate, LogEventOut} |-> <<>>]
    /\ now = 0
    /\ queue = {}
    /\ next_event = NoEvent
    /\ next_event_time_sec = 0
    /\ val = [o \in ValueOutputs |-> initial]
    /\ trace = <<>>
    /\ err = NoExc
    /\ last = <<"init", None, FALSE>>
    /\ bypass = [c \in Slots |-> 0]

\* m.attach_child(mutex=t.lock)
AttachChild(r) ==
    /\ Len(children) < MaxChildren
    /\ Commit(attach_child(State, r), <<"attach_child", r, FALSE>>)

\* t.lock(w)
RequesterPush(r, w) ==
    /\ w \in BOOLEAN
    /\ Commit(SyncCall(State, r, w), <<"push", r, w>>)

\* t.lock.detach()
RequesterDetach(r) ==
    /\ r \in Requesters
    /\ Commit(SyncDetach(State, r), <<"detach", r, FALSE>>)

\* child.mutex.detach() on a child of the coordinator
ChildDetach(c) ==
    /\ InSeq(children, c)
    /\ Commit(SyncDetach(State, c), <<"detach", c, FALSE>>)

NextMutex ==
    \/ \E r \in Requesters : AttachChild(r)
    \/ \E r \in Requesters, w \in BOOLEAN : RequesterPush(r, w)
    \/ \E r \in Requesters : RequesterDetach(r)
    \/ \E c \in Slots : ChildDetach(c)

SpecMutex == Init /\ [][NextMutex]_vars

\* a step in which the slot that holds the lock gives it up: its requester
\* pushes want=false, or its connection is detached from either end
ReleaseStep ==
    \/ \E r \in Requesters :
           /\ peer[r] # None
           /\ want[peer[r]]
           /\ (RequesterPush(r, FALSE) \/ RequesterDetach(r))
    \/ \E c \in Slots : want[c] /\ ChildDetach(c)

\* the coordinator when every holder eventually releases
SpecMutexFair == Init /\ [][NextMutex]_vars /\ WF_vars(ReleaseStep)

\* requesters that attach only while unattached and push or detach only
\* while attached, the holder's requester eventually pushing want=false
OrderlyAttach(r) == peer[r] = None /\ AttachChild(r)

OrderlyPush(r, w) == peer[r] # None /\ RequesterPush(r, w)

OrderlyDetach(r) == peer[r] # None /\ RequesterDetach(r)

OrderlyRelease == \E r \in Requesters : peer[r] # None /\ want[peer[r]] /\ RequesterPush(r, FALSE)

NextMutexOrderly ==
    \/ \E r \in Requesters : OrderlyAttach(r)
    \/ \E r \in Requesters, w \in BOOLEAN : OrderlyPush(r, w)
    \/ \E r \in Requesters : OrderlyDetach(r)

SpecMutexOrderly == Init /\ [][NextMutexOrderly]_vars /\ WF_vars(OrderlyRelease)

\* ------------------------------------------------------------------------
\* Thing actors wired by collaborator code (test_detach)
\* ------------------------------------------------------------------------
\* o.attach(d)
PortAttach(o, d) ==
    /\ Len(down[o]) < MaxDown
    /\ Commit(OutputAttach(State, o, d), <<"attach", o, d>>)

\* d.attach(o), as Actor.attach(d=o) does
PortAttachInput(d, o) ==
    /\ Len(down[o]) < MaxDown
    /\ Commit(InputAttach(State, d, o), <<"attach", d, o>>)

\* o(v) on a value output
ValuePush(o, v) ==
    /\ v \in Values
    /\ Commit(ValueOutputCall(State, o, v), <<"push", o, v>>)

\* o(ev) on an event output
EventPush(o, ev) ==
    /\ ev \in Events
    /\ Commit(EventOutputCall(State, o, ev), <<"push", o, ev>>)

\* o.detach()
PortDetachOutput(o) ==
    /\ o \in Outputs
    /\ Commit(OutputDetach(State, o), <<"detach", o, FALSE>>)

\* d.detach()
PortDetachInput(d) ==
    /\ d \in Inputs
    /\ Commit(InputDetach(State, d), <<"detach", d, FALSE>>)

\* the value ports of the Things; an attach may name an input of either kind
NextValue ==
    \/ \E o \in ValueOutputs, d \in Inputs : PortAttach(o, d)
    \/ \E d \in Inputs, o \in ValueOutputs : PortAttachInput(d, o)
    \/ \E o \in ValueOutputs, v \in Values : ValuePush(o, v)
    \/ \E o \in ValueOutputs : PortDetachOutput(o)
    \/ \E d \in ValueInputs : PortDetachInput(d)

SpecValue == Init /\ [][NextValue]_vars

\* the event ports of the Things
NextEvent ==
    \/ \E o \in EventOutputs, d \in Inputs : PortAttach(o, d)
    \/ \E d \in Inputs, o \in EventOutputs : PortAttachInput(d, o)
    \/ \E o \in EventOutputs, ev \in Events : EventPush(o, ev)
    \/ \E o \in EventOutputs : PortDetachOutput(o)
    \/ \E d \in EventInputs : PortDetachInput(d)

SpecEvent == Init /\ [][NextEvent]_vars

\* a.attach(b) on two Sync ports of distinct actors
GoAttach(a, b) ==
    /\ a # b
    /\ Commit(SyncAttach(State, a, b), <<"attach", a, b>>)

\* p(w)
GoPush(p, w) ==
    /\ w \in BOOLEAN
    /\ Commit(SyncCall(State, p, w), <<"push", p, w>>)

\* p.detach()
GoDetach(p) ==
    /\ p \in GoPorts
    /\ Commit(SyncDetach(State, p), <<"detach", p, FALSE>>)

NextSync ==
    \/ \E a \in GoPorts, b \in GoPorts : GoAttach(a, b)
    \/ \E p \in GoPorts, w \in BOOLEAN : GoPush(p, w)
    \/ \E p \in GoPorts : GoDetach(p)

SpecSync == Init /\ [][NextSync]_vars

\* Thing's handlers and Actor.after_detach touch no port, so the three kinds
\* of port share no state: a run of the Things is followed one kind at a
\* time, the ports of the other kinds as constructed.
ValueIdle ==
    /\ \A d \in ValueInputs : up[d] = None
    /\ \A o \in ValueOutputs : down[o] = <<>> /\ val[o] = initial

EventIdle ==
    /\ \A d \in EventInputs : up[d] = None
    /\ \A o \in EventOutputs : down[o] = <<>>

SyncIdle == \A p \in GoPorts : peer[p] = None /\ ~want[p]

NextThing ==
    \/ EventIdle /\ SyncIdle /\ NextValue
    \/ ValueIdle /\ SyncIdle /\ NextEvent
    \/ ValueIdle /\ EventIdle /\ NextSync

SpecThing == Init /\ [][NextThing]_vars

\* the ports of one Thing and the attaches their classes are made for
PortsOf(k) == {<<"my_status", k>>, <<"hello", k>>, <<"status", k>>, <<"hey", k>>, <<"go", k>>}

Compatible(a, b) ==
    \/ a \in ValueOutputs /\ b \in ValueInputs
    \/ a \in ValueInputs /\ b \in ValueOutputs
    \/ a \in EventOutputs /\ b \in EventInputs
    \/ a \in EventInputs /\ b \in EventOutputs
    \/ a \in GoPorts /\ b \in GoPorts

\* a.attach(b) on two ports whose classes do not go together
AttachMismatched(a, b) ==
    /\ ~Compatible(a, b)
    /\ Commit(PortInstanceAttach(State, a, b), <<"attach", a, b>>)

\* x and y wired to each other as test_detach wires them, all three kinds of
\* port in use at once, with collaborator code that also attaches a port of x
\* to a port of y of the wrong class
NextKinds ==
    \/ \E o \in Outputs \cap PortsOf(0), d \in Inputs \cap PortsOf(1) :
           Compatible(o, d) /\ PortAttach(o, d)
    \/ \E o \in ValueOutputs \cap PortsOf(0), v \in Values : ValuePush(o, v)
    \/ \E o \in EventOutputs \cap PortsOf(0), ev \in Events : EventPush(o, ev)
    \/ \E o \in Outputs \cap PortsOf(0) : PortDetachOutput(o)
    \/ \E d \in Inputs \cap PortsOf(1) : PortDetachInput(d)
    \/ \E a \in GoPorts \cap PortsOf(0), b \in GoPorts \cap PortsOf(1) : GoAttach(a, b)
    \/ \E p \in GoPorts \cap (PortsOf(0) \cup PortsOf(1)), w \in BOOLEAN : GoPush(p, w)
    \/ \E p \in GoPorts \cap (PortsOf(0) \cup PortsOf(1)) : GoDetach(p)
    \/ \E a \in PortsOf(0), b \in PortsOf(1) : AttachMismatched(a, b)

SpecKinds == Init /\ [][NextKinds]_vars

\* ------------------------------------------------------------------------
\* The timer of the main block: t.attach(trigger=l.event_in), t.active(True),
\* mgr.run()
\* ------------------------------------------------------------------------
\* t.attach(trigger=l.event_in)
TimerWire ==
    /\ up[LogEventIn] = None
    /\ Commit(EventOutputAttach(State, TimerTrigger, LogEventIn),
              <<"attach", TimerTrigger, LogEventIn>>)

\* t.active(v)
Activate(v) ==
    Commit(InputCall(State, TimerActive, v), <<"call", TimerActive, v>>)

\* the event the scheduler runs next
Due == CHOOSE e \in queue : \A f \in queue : e <= f

\* one turn of scheduler.run(): the earliest event, once its time has come, is
\* taken off the queue and its action _on_expire is called
Expire ==
    /\ queue # {}
    /\ Due <= now
    /\ Commit(on_expire([State EXCEPT !.queue = @ \ {Due}]), <<"expire", TimerTrigger, Due>>)

\* the monotonic clock advances
Tick ==
    /\ now < MaxTime
    /\ Commit([State EXCEPT !.now = @ + 1], <<"tick", None, now>>)

NextTimer ==
    \/ TimerWire
    \/ \E v \in BOOLEAN : Activate(v)
    \/ Expire
    \/ Tick

SpecTimer == Init /\ [][NextTimer]_vars

\* ------------------------------------------------------------------------
\* Vocabulary of the properties
\* ------------------------------------------------------------------------
SlotAt(k) == <<"mutex", k>>

\* 1-based place of the slot holding the lock, 0 when no slot holds it
HolderIdx ==
    IF \E k \in 1..Len(children) : want[SlotAt(k)]
    THEN CHOOSE k \in 1..Len(children) : want[SlotAt(k)]
    ELSE 0

\* the requester of the k-th slot wants the lock
Requesting(k) == peer[SlotAt(k)] # None /\ want[peer[SlotAt(k)]]

\* slot.mutex.val is True
Granted(c) == SyncVal(State, c) = "True"

\* the requester is attached, wants the lock and does not have it
RWaiting(r) == peer[r] # None /\ want[r] /\ ~want[peer[r]]

\* the member of S met first when walking forward from place i, wrapping at n
CyclicFirst(i, S, n) ==
    CHOOSE k \in S : \A j \in S : (k - i + n) % n <= (j - i + n) % n

\* the place of the k-th slot once the i-th has been removed
After(k, i) == IF k > i THEN k - 1 ELSE k

\* no exception escaped the coordinator, and objects out of the list are fresh
MutexSound ==
    /\ pos \in 0..MaxChildren
    /\ err \in {NoExc, "AttributeError"}
    /\ \A c \in Slots : ~InSeq(children, c) => peer[c] = None /\ ~want[c]
    /\ \A r \in Requesters : peer[r] # None => InSeq(children, peer[r]) /\ peer[peer[r]] = r

\* C1. Mutual exclusion: in every reachable state at most one child slot is
\* granted (slot.mutex.want and requester.want), and at most one requester port
\* reads val == True.
MutualExclusion ==
    /\ Cardinality({c \in Slots : InSeq(children, c) /\ Granted(c)}) <= 1
    /\ Cardinality({r \in Requesters : SyncVal(State, r) = "True"}) <= 1

\* C1 witness: one requester holds the lock while another one is waiting.
MutualExclusionWitness ==
    /\ \E r \in Requesters : SyncVal(State, r) = "True"
    /\ \E r \in Requesters : RWaiting(r)
    /\ last[1] = "push"

\* the last call detached the connection of the slot that held the lock
DetachesHolder ==
    /\ last'[1] = "detach"
    /\ err' = NoExc
    /\ locked
    /\ HolderIdx # 0
    /\ \/ last'[2] = SlotAt(HolderIdx)
       \/ last'[2] \in Requesters /\ peer[last'[2]] = SlotAt(HolderIdx)

\* C2. Detach-while-held: detaching the connection of the slot that holds the
\* lock removes that slot from children, and either no other slot's requester
\* wants the lock and locked becomes false, or the next requesting slot in
\* cyclic order after the detached one is granted and locked stays true; at
\* most one slot is granted afterwards.
DetachWhileHeld ==
    [][DetachesHolder =>
        LET i == HolderIdx
            n == Len(children)
            S == {k \in 1..n : k # i /\ Requesting(k)}
        IN  /\ Len(children') = n - 1
            /\ \A k \in (1..n) \ {i} : peer'[SlotAt(After(k, i))] = peer[SlotAt(k)]
            /\ IF S = {}
               THEN ~locked' /\ \A k \in 1..(n - 1) : ~want'[SlotAt(k)]
               ELSE /\ locked'
                    /\ \A k \in 1..(n - 1) :
                           want'[SlotAt(k)] <=> k = After(CyclicFirst(i, S, n), i)
    ]_vars

\* C2 witness: a detach during which the lock passed to another requester.
DetachWhileHeldWitness ==
    /\ last[1] = "detach"
    /\ err = NoExc
    /\ locked
    /\ \E k \in 1..Len(trace) : trace[k][1] = "f" /\ trace[k][3] = TRUE
    /\ \E r \in Requesters : SyncVal(State, r) = "True"

\* every slot is wired to a requester of its own, which is wired back to it
WellWired == \A k \in 1..Len(children) :
    peer[SlotAt(k)] # None /\ peer[peer[SlotAt(k)]] = SlotAt(k)

\* C3. Fairness order: with the children attached to distinct requesters, a
\* request made while the lock is free is granted at once (so A, asking first,
\* is first), and when the holder at place i releases while all the others are
\* requesting, the lock goes to the slot right after it, wrapping to the head
\* (A, B, C, A, ...), with pos left on that slot: after B releases, pos is the
\* index after B.
FairnessOrder ==
    [][\A r \in Requesters :
        LET n == Len(children)
            i == peer[r][2]
        IN  /\ (/\ last' = <<"push", r, FALSE>>
                /\ WellWired
                /\ peer[r] # None
                /\ want[peer[r]]
                /\ n >= 2
                /\ \A k \in (1..n) \ {i} : Requesting(k))
               => (/\ locked'
                   /\ pos' = i % n
                   /\ \A k \in 1..n : want'[SlotAt(k)] <=> k = (i % n) + 1)
            /\ (/\ last' = <<"push", r, TRUE>>
                /\ WellWired
                /\ peer[r] # None
                /\ ~locked)
               => (/\ locked'
                   /\ pos' = i - 1
                   /\ \A k \in 1..n : want'[SlotAt(k)] <=> k = i)
    ]_vars

\* C3 witness: with three children, B has just released while A and C were
\* requesting; C holds and pos is C's index.
FairnessOrderWitness ==
    /\ Len(children) = 3
    /\ WellWired
    /\ last = <<"push", peer[SlotAt(2)], FALSE>>
    /\ \E k \in 1..Len(trace) : trace[k] = <<"f", SlotAt(2), FALSE>>
    /\ want[peer[SlotAt(1)]]
    /\ want[SlotAt(3)]
    /\ pos = 2

\* the last call changed the membership of children
MembershipChanged == last[1] \in {"attach_child", "detach"} /\ err = NoExc

\* C4. Bounded bypass with fixed membership: while no child attaches or
\* detaches, a waiting slot sees at most len(children)-1 grants to other slots;
\* a release grants the first requesting slot in cyclic order after the
\* releasing one and never the releasing slot itself; and, every holder
\* eventually releasing, a requester that keeps want=true is granted.
BoundedBypass ==
    /\ [](\A k \in 1..Len(children) : bypass[SlotAt(k)] <= Len(children) - 1)
    /\ [][\A r \in Requesters :
            (/\ last' = <<"push", r, FALSE>>
             /\ peer[r] # None
             /\ want[peer[r]])
            => LET n == Len(children)
                   i == peer[r][2]
                   S == {k \in 1..n : k # i /\ Requesting(k) /\ peer[SlotAt(k)] # r}
               IN  /\ children' = children
                   /\ ~want'[SlotAt(i)]
                   /\ IF S = {}
                      THEN ~locked' /\ \A k \in 1..n : ~want'[SlotAt(k)]
                      ELSE /\ locked'
                           /\ pos' = CyclicFirst(i, S, n) - 1
                           /\ \A k \in 1..n :
                                  want'[SlotAt(k)] <=> k = CyclicFirst(i, S, n)
       ]_vars
    /\ \A r \in Requesters : RWaiting(r) ~> (~RWaiting(r) \/ MembershipChanged)

\* C4 witness: a waiting slot that has been passed over once by a release
\* and is still waiting, with three children.
BoundedBypassWitness ==
    /\ Len(children) = 3
    /\ last[1] = "push"
    /\ last[3] = FALSE
    /\ \E k \in 1..3 : bypass[SlotAt(k)] >= 1 /\ Requesting(k) /\ ~want[SlotAt(k)]

\* C5. Fairness under dynamic membership: whatever other children attach and
\* detach, a requester that stays attached with want=true is eventually
\* granted, every holder eventually releasing.
DynamicFairness == \A r \in Requesters : RWaiting(r) ~> ~RWaiting(r)

\* ------------------------------------------------------------------------
\* Ports of the Things
\* ------------------------------------------------------------------------
\* how many times the call recorded in tr ran the handler of port q with thing
Calls(tr, q, thing) == Cardinality({k \in 1..Len(tr) : tr[k] = <<"f", q, thing>>})

\* the handler calls of tr, whatever the port and the datum
HandlerCalls(tr) == {k \in 1..Len(tr) : tr[k][1] = "f"}

\* C6. Sync attach handshake: a.attach(b) on two unconnected Sync ports runs
\* a's owner's handler and then b's owner's handler, once each and both with
\* a's pre-attach want, leaves both wants equal to that value and the ports
\* connected to each other; when that want is false both sides read
\* granted = false.
SyncHandshake ==
    [][\A a \in GoPorts : \A b \in GoPorts \ {a} :
          (/\ last' = <<"attach", a, b>>
           /\ peer[a] = None
           /\ peer[b] = None)
          => (/\ err' = NoExc
              /\ trace' = << <<"f", a, want[a]>>, <<"f", b, want[a]>> >>
              /\ want'[a] = want[a]
              /\ want'[b] = want[a]
              /\ peer'[a] = b
              /\ peer'[b] = a
              /\ (~want[a] => /\ SyncVal(State, a)' = "False"
                              /\ SyncVal(State, b)' = "False")
              /\ (want[a] => /\ SyncVal(State, a)' = "True"
                             /\ SyncVal(State, b)' = "True"))
    ]_vars

\* C6 witness: x.go.attach(y.go) has just run with x.go wanting; both handlers
\* ran with true, x's first, and no third port points at either.
SyncHandshakeWitness ==
    /\ last = <<"attach", <<"go", 0>>, <<"go", 1>>>>
    /\ err = NoExc
    /\ trace = << <<"f", <<"go", 0>>, TRUE>>, <<"f", <<"go", 1>>, TRUE>> >>
    /\ want[<<"go", 0>>] /\ want[<<"go", 1>>]
    /\ peer[<<"go", 2>>] = None

\* a call that reaches ValueOutputInstance.attach(o, d) with a value input d
ValueAttachCall(o, d) == last' \in {<<"attach", o, d>>, <<"attach", d, o>>}

\* C7. Value-attach replay: attaching a value input d to a value output o
\* runs d's handler exactly once, with o's current value, and no other
\* handler; afterwards d.val reads that value; o's current value is its
\* initial value until a push, and then the last value pushed.
ValueAttachReplay ==
    /\ [][\A o \in ValueOutputs, d \in ValueInputs :
            ValueAttachCall(o, d)
            => (/\ err' = NoExc
                /\ trace' = << <<"f", d, val[o]>> >>
                /\ val' = val
                /\ ValueInputVal(State, d)' = val[o])
       ]_vars
    /\ [][\A o \in ValueOutputs, v \in Values :
            last' = <<"push", o, v>> => val' = [val EXCEPT ![o] = v]
       ]_vars
    /\ [](last[1] = "init" => \A o \in ValueOutputs : val[o] = initial)

\* C7 witness: y.status has just been attached to x.my_status, which already
\* fed x.status and had been pushed "10"; only y.status was called, with "10".
ValueAttachReplayWitness ==
    /\ last = <<"attach", <<"my_status", 0>>, <<"status", 1>>>>
    /\ err = NoExc
    /\ down[<<"my_status", 0>>] = << <<"status", 0>>, <<"status", 1>> >>
    /\ val[<<"my_status", 0>>] = "10"
    /\ trace = << <<"f", <<"status", 1>>, "10">> >>
    /\ ValueInputVal(State, <<"status", 1>>) = "10"

\* C8. Push delivery without suppression: a push on an event or value output
\* runs the handler of each input in its down list exactly once, with the
\* pushed datum, and no other handler; a push on a Sync port runs its peer's
\* handler exactly once with the pushed want, and nothing when it has no
\* peer; a push equal to the previous one is delivered like any other.
PushDelivery ==
    /\ [][\A o \in Outputs, v \in Values \cup Events :
            last' = <<"push", o, v>>
            => (/\ err' = NoExc
                /\ \A d \in Inputs :
                       Calls(trace', d, v) = IF InSeq(down[o], d) THEN 1 ELSE 0
                /\ Cardinality(HandlerCalls(trace'))
                       = Cardinality({d \in Inputs : InSeq(down[o], d)}))
       ]_vars
    /\ [][\A p \in GoPorts, w \in BOOLEAN :
            last' = <<"push", p, w>>
            => (/\ err' = NoExc
                /\ trace' = IF peer[p] = None THEN <<>> ELSE << <<"f", peer[p], w>> >>)
       ]_vars

\* the number of places d takes in the down lists of the value outputs
Occurrences(d) ==
    Cardinality({x \in ValueOutputs \X (1..(MaxDown + 1)) :
                     x[2] <= Len(down[x[1]]) /\ down[x[1]][x[2]] = d})

\* C10. Double attach of a value input: attaching a value input that has an
\* upstream raises, runs no handler and changes no port; so no value input
\* takes more than one place in the down lists.
DoubleAttachRejected ==
    /\ [][\A o \in ValueOutputs, d \in ValueInputs :
            (ValueAttachCall(o, d) /\ up[d] # None)
            => (/\ err' # NoExc
                /\ trace' = <<>>
                /\ up' = up
                /\ down' = down
                /\ val' = val)
       ]_vars
    /\ [](\A d \in ValueInputs : Occurrences(d) <= 1)

\* C9. PortNotConnected: val of a value input without upstream and of a Sync
\* port without peer raises PortNotConnected, as constructed and after a
\* detach from either end; otherwise a value input reads its upstream's
\* current value, the pushed value after a push, and a Sync port reads
\* want and peer.want.
NotConnectedReads ==
    /\ [](/\ \A d \in ValueInputs :
               ValueInputVal(State, d)
                   = IF up[d] = None THEN "PortNotConnected" ELSE val[up[d]]
          /\ \A p \in GoPorts :
               SyncVal(State, p)
                   = IF peer[p] = None THEN "PortNotConnected"
                     ELSE IF want[p] /\ want[peer[p]] THEN "True" ELSE "False")
    /\ [](last[1] = "init"
            => /\ \A d \in ValueInputs : ValueInputVal(State, d) = "PortNotConnected"
               /\ \A p \in GoPorts : SyncVal(State, p) = "PortNotConnected")
    /\ [][\A d \in ValueInputs :
            last' = <<"detach", d, FALSE>>
            => ValueInputVal(State, d)' = "PortNotConnected"
       ]_vars
    /\ [][\A o \in ValueOutputs :
            last' = <<"detach", o, FALSE>>
            => \A d \in ValueInputs :
                   InSeq(down[o], d) => ValueInputVal(State, d)' = "PortNotConnected"
       ]_vars
    /\ [][\A p \in GoPorts :
            last' = <<"detach", p, FALSE>>
            => /\ SyncVal(State, p)' = "PortNotConnected"
               /\ \A q \in GoPorts :
                      q = peer[p] => SyncVal(State, q)' = "PortNotConnected"
       ]_vars
    /\ [][\A o \in ValueOutputs, v \in Values :
            last' = <<"push", o, v>>
            => \A d \in ValueInputs : up[d] = o => ValueInputVal(State, d)' = v
       ]_vars

\* C9 witness: x.my_status, pushed "10" while it fed y.status, has just been
\* detached from its own end; y.status was notified and reads PortNotConnected.
NotConnectedReadsWitness ==
    /\ last = <<"detach", <<"my_status", 0>>, FALSE>>
    /\ err = NoExc
    /\ val[<<"my_status", 0>>] = "10"
    /\ trace = << <<"after_detach", <<"status", 1>>, None>>,
                  <<"after_detach", <<"my_status", 0>>, <<>> >> >>
    /\ ValueInputVal(State, <<"status", 1>>) = "PortNotConnected"

\* C11. Double attach of a Sync port: a.attach(b) raises whenever a or b has a
\* peer, and then no port's peer or want changes and no handler runs.
SyncDoubleAttachRejected ==
    [][\A a \in GoPorts : \A b \in GoPorts \ {a} :
          (/\ last' = <<"attach", a, b>>
           /\ (peer[a] # None \/ peer[b] # None))
          => (/\ err' # NoExc
              /\ trace' = <<>>
              /\ peer' = peer
              /\ want' = want)
    ]_vars

\* C12. Kind mismatch: an attach between ports whose classes do not go
\* together (Event with Value, Sync with non-Sync, output with output, input
\* with input) raises at the call, and no port's up, down, peer, want or
\* stored value changes and no handler or after_detach hook runs.
KindMismatchRejected ==
    [][\A a \in PortsOf(0), b \in PortsOf(1) :
          (last' = <<"attach", a, b>> /\ ~Compatible(a, b))
          => (/\ err' # NoExc
              /\ trace' = <<>>
              /\ up' = up
              /\ down' = down
              /\ peer' = peer
              /\ want' = want
              /\ val' = val)
    ]_vars

\* C12 witness: x.my_status, which feeds y.status, has just been attached to
\* y.hey and the call raised.
KindMismatchRejectedWitness ==
    /\ last = <<"attach", <<"my_status", 0>>, <<"hey", 1>>>>
    /\ err = "NameError"
    /\ down[<<"my_status", 0>>] = << <<"status", 1>> >>
    /\ up[<<"hey", 1>>] = None

\* the last call raised, ran no handler and no hook, and changed no port
RejectedUnchanged ==
    /\ err' # NoExc
    /\ trace' = <<>>
    /\ up' = up
    /\ down' = down
    /\ val' = val
    /\ peer' = peer
    /\ want' = want

\* C13. Detach while unattached: detach() on an input without upstream, on a
\* Sync port without peer, or on an output with an empty down list raises,
\* runs no after_detach hook and changes no state.
DetachUnattachedRejected ==
    /\ [][\A d \in Inputs :
            (last' = <<"detach", d, FALSE>> /\ up[d] = None) => RejectedUnchanged
       ]_vars
    /\ [][\A p \in GoPorts :
            (last' = <<"detach", p, FALSE>> /\ peer[p] = None) => RejectedUnchanged
       ]_vars
    /\ [][\A o \in Outputs :
            (last' = <<"detach", o, FALSE>> /\ down[o] = <<>>) => RejectedUnchanged
       ]_vars
\* the emissions of output o recorded in tr, in order
Emitted(tr, o) == SelectSeq(tr, LAMBDA x : x[1] = "emit" /\ x[2] = o)

\* the step is one run of _on_expire by the scheduler
Expiry == last'[1] = "expire"

\* C14: on an expiry exactly one trigger is emitted; a late event is emitted
\* iff the previous next expiry plus the interval is strictly before now, and
\* then it is the only one, it carries now, and the next wake is scheduled at
\* now + interval; otherwise no late event is emitted and the next wake is at
\* the previous next expiry plus the interval.
LateWake ==
    [][Expiry =>
        LET advanced == next_event_time_sec + Interval
        IN  /\ Len(Emitted(trace', TimerTrigger)) = 1
            /\ err' = NoExc
            /\ next_event' \in queue'
            /\ next_event' = next_event_time_sec'
            /\ IF advanced < now
               THEN /\ Emitted(trace', TimerLate) = << <<"emit", TimerLate, Event(now)>> >>
                    /\ next_event' = now + Interval
               ELSE /\ Emitted(trace', TimerLate) = <<>>
                    /\ next_event' = advanced]_vars

\* a wake that came late has just been served
LateWakeWitness ==
    /\ last[1] = "expire"
    /\ last[3] + 0 < now
    /\ Len(Emitted(trace, TimerLate)) = 1
    /\ next_event = now + Interval

\* the step is t.active(v)
Pushed(v) == last' = <<"call", TimerActive, v>>

\* what one trigger carrying ev leaves in the trace: the emission alone, or,
\* with LogEvent wired to trigger, the emission, LogEvent's handler and its
\* one emission of the same event on event_out
OneTrigger(ev) ==
    IF up[LogEventIn] = TimerTrigger
    THEN << <<"emit", TimerTrigger, ev>>, <<"f", LogEventIn, ev>>, <<"emit", LogEventOut, ev>> >>
    ELSE << <<"emit", TimerTrigger, ev>> >>

\* C15: the activation of an unscheduled timer at t0 emits one trigger at t0
\* and schedules the wake at t0 + interval; a wake served at its scheduled
\* time e emits one trigger at e and schedules e + interval; neither emits a
\* late event; active(true) on a scheduled timer changes and emits nothing;
\* LogEvent forwards each trigger once, unchanged.
Periodicity ==
    [][/\ (Pushed(TRUE) /\ next_event = NoEvent) \/ (Expiry /\ Due = now) =>
            /\ trace' = IF Expiry THEN OneTrigger(Event(now))
                                  ELSE << <<"f", TimerActive, TRUE>> >> \o OneTrigger(Event(now))
            /\ next_event' = now + Interval
            /\ queue' = {now + Interval}
            /\ err' = NoExc
       /\ Pushed(TRUE) /\ next_event # NoEvent =>
            /\ trace' = << <<"f", TimerActive, TRUE>> >>
            /\ UNCHANGED <<queue, next_event, next_event_time_sec, up, down, now>>
            /\ err' = NoExc]_vars

\* the wake scheduled one interval after an on-time wake is served on time to
\* the wired LogEvent
PeriodicityWitness ==
    /\ last[1] = "expire"
    /\ last[3] + 0 = now
    /\ now >= 2 * Interval
    /\ up[LogEventIn] = TimerTrigger
    /\ Emitted(trace, LogEventOut) = << <<"emit", LogEventOut, Event(now)>> >>
    /\ Emitted(trace, TimerLate) = <<>>

\* C16: active(false) on a scheduled timer takes its event off the queue and
\* clears next_event; while next_event is None no wake is pending and only
\* active(true) emits a trigger or a late event; that activation anchors the
\* schedule at its own time and emits its trigger at once; active(false) on
\* an unscheduled timer changes nothing.
Deactivation ==
    [][/\ next_event = NoEvent => queue = {}
       /\ Pushed(FALSE) =>
            /\ trace' = << <<"f", TimerActive, FALSE>> >>
            /\ err' = NoExc
            /\ next_event' = NoEvent
            /\ queue' = queue \ {next_event}
            /\ queue' = {}
            /\ UNCHANGED <<next_event_time_sec, up, down, now>>
       /\ next_event = NoEvent /\ ~Pushed(TRUE) =>
            /\ Emitted(trace', TimerTrigger) = <<>>
            /\ Emitted(trace', TimerLate) = <<>>
            /\ next_event' = NoEvent
       /\ next_event = NoEvent /\ Pushed(TRUE) =>
            /\ Emitted(trace', TimerTrigger) = << <<"emit", TimerTrigger, Event(now)>> >>
            /\ Emitted(trace', TimerLate) = <<>>
            /\ next_event_time_sec' = now + Interval
            /\ next_event' = now + Interval
            /\ queue' = {now + Interval}]_vars

\* a wake that was not yet due has just been cancelled
DeactivationWitness ==
    /\ last = <<"call", TimerActive, FALSE>>
    /\ next_event = NoEvent
    /\ queue = {}
    /\ now < next_event_time_sec
    /\ up[LogEventIn] = TimerTrigger

\* input d and output o know nothing of each other
Unconnected(o, d) == up[d] = None /\ ~InSeq(down[o], d)

\* input d is attached to output o, at one place of its down list
ConnectedOnce(o, d) ==
    /\ up[d] = o
    /\ Cardinality({k \in 1..Len(down[o]) : down[o][k] = d}) = 1

\* Sync ports a and b are each other's peer
Paired(a, b) == peer[a] = b /\ peer[b] = a

\* the handler calls of tr made on port q
CallsOn(tr, q) == Cardinality({k \in 1..Len(tr) : tr[k][1] = "f" /\ tr[k][2] = q})

\* the pairs of an output and an input of its kind
Pairs == (ValueOutputs \X ValueInputs) \cup (EventOutputs \X EventInputs)

\* C17: an attach of an unconnected pair succeeds, connects it once and makes
\* the initial exchange of its kind (Value: the one replay of the current
\* value; Event: nothing; Sync: each handler once); a detach of either end of
\* a pair so connected leaves both ends unconnected, which is the state the
\* attach starts from, any number of times; a push on a pair so connected is
\* delivered once.
ReattachRoundTrip ==
    [][/\ \A x \in Pairs :
            /\ last' \in {<<"attach", x[1], x[2]>>, <<"attach", x[2], x[1]>>} /\ Unconnected(x[1], x[2]) =>
                  /\ err' = NoExc
                  /\ ConnectedOnce(x[1], x[2])'
                  /\ trace' = IF x[1] \in ValueOutputs THEN << <<"f", x[2], val[x[1]]>> >> ELSE <<>>
            /\ last' \in {<<"detach", x[1], FALSE>>, <<"detach", x[2], FALSE>>} /\ ConnectedOnce(x[1], x[2]) =>
                  /\ err' = NoExc
                  /\ Unconnected(x[1], x[2])'
            /\ last'[1] = "push" /\ last'[2] = x[1] /\ ConnectedOnce(x[1], x[2]) =>
                  /\ err' = NoExc
                  /\ CallsOn(trace', x[2]) = 1
                  /\ Calls(trace', x[2], last'[3]) = 1
       /\ \A a \in GoPorts : \A b \in GoPorts \ {a} :
            /\ last' = <<"attach", a, b>> /\ peer[a] = None /\ peer[b] = None =>
                  /\ err' = NoExc
                  /\ Paired(a, b)'
                  /\ Len(trace') = 2
                  /\ CallsOn(trace', a) = 1
                  /\ CallsOn(trace', b) = 1
            /\ last' \in {<<"detach", a, FALSE>>, <<"detach", b, FALSE>>} /\ Paired(a, b) =>
                  /\ err' = NoExc
                  /\ peer'[a] = None
                  /\ peer'[b] = None
            /\ last'[1] = "push" /\ last'[2] = a /\ Paired(a, b) =>
                  /\ err' = NoExc
                  /\ HandlerCalls(trace') # {}
                  /\ \A k \in HandlerCalls(trace') : trace'[k] = <<"f", b, last'[3]>>
                  /\ Len(trace') = 1]_vars

\* a value pair is attached, alone, after a push: the replay carries the
\* value pushed
ReattachRoundTripWitness ==
    \E x \in ValueOutputs \X ValueInputs :
        /\ last = <<"attach", x[1], x[2]>>
        /\ err = NoExc
        /\ down[x[1]] = <<x[2]>>
        /\ up[x[2]] = x[1]
        /\ val[x[1]] \in Values
        /\ trace = << <<"f", x[2], val[x[1]]>> >>

\* the step is r(TRUE) by a requester whose peer is a slot of the coordinator,
\* taken while the lock is free
RequestWhileFree(r) ==
    /\ last' = <<"push", r, TRUE>>
    /\ peer[r] # None
    /\ InSeq(children, peer[r])
    /\ ~locked

\* C18: when a slot's requester pushes want = true while locked is false, on
\* return locked is true, the slot's mutex.want is true, the requester's
\* handler has run exactly once, with true, and the requester reads granted.
GrantOnRequest ==
    [][\A r \in Requesters : \A c \in Slots :
          RequestWhileFree(r) /\ c = peer[r] =>
              /\ err' = NoExc
              /\ locked'
              /\ want'[c]
              /\ peer'[r] = c
              /\ CallsOn(trace', r) = 1
              /\ Calls(trace', r, TRUE) = 1
              /\ SyncVal(State, r)' = "True"]_vars

\* a requester has just been granted the free lock among several slots
GrantOnRequestWitness ==
    \E r \in Requesters :
        /\ last = <<"push", r, TRUE>>
        /\ Len(children) >= 2
        /\ locked
        /\ peer[r] # None
        /\ want[peer[r]]
        /\ pos = Index(children, peer[r])
        /\ Calls(trace, r, TRUE) = 1
        /\ Len(trace) = 2

\* C19: when a request is granted because the lock is free, pos is set to
\* (index of the slot + 1) mod len(children).
PositionOnGrant ==
    [][\A r \in Requesters :
          RequestWhileFree(r) => pos' = (Index(children, peer[r]) + 1) % Len(children)]_vars

\* C19, amended: when a request is granted because the lock is free, pos is
\* set to the index of the granted slot.
PositionIsHolder ==
    [][\A r \in Requesters :
          RequestWhileFree(r) => pos' = Index(children, peer[r]) /\ want'[children[pos' + 1]]]_vars

\* the free lock has just been granted to a slot that is not the last of the
\* list, so that the index and its successor differ
PositionIsHolderWitness ==
    \E r \in Requesters :
        /\ last = <<"push", r, TRUE>>
        /\ locked
        /\ peer[r] # None
        /\ InSeq(children, peer[r])
        /\ want[peer[r]]
        /\ Len(trace) = 2
        /\ Len(children) = MaxChildren
        /\ pos = Index(children, peer[r])
        /\ pos = 1

\* the step is r(FALSE) by the requester of the slot that holds the lock
ReleaseByHolder(r) ==
    /\ last' = <<"push", r, FALSE>>
    /\ peer[r] # None
    /\ InSeq(children, peer[r])
    /\ want[peer[r]]
    /\ locked

\* steps forward from index a to index b in a list of n, wrapping
Ahead(a, b, n) == (b - a + 2 * n) % n

\* the indices the scan passes before it is back at the releasing index i
Scanned(i) ==
    {k \in 0..(Len(children) - 1) :
        k # i /\ Ahead(pos + 1, k, Len(children)) < Ahead(pos + 1, i, Len(children))}

\* the scanned indices whose requester wants the lock once r has withdrawn
ScanWaiters(i, r) ==
    {k \in Scanned(i) : peer[children[k + 1]] # r /\ Requesting(k + 1)}

\* C20: when the holder's requester pushes want = false, the holder's slot
\* want becomes false and the slots after pos are scanned forward, wrapping:
\* the first whose requester wants the lock is granted (its slot want true,
\* pos its index, locked still true, no other slot granted); when the scan
\* is back at the releasing index with no waiter found, locked becomes false;
\* the scan ends without an exception.
ReleaseScanGrants ==
    [][\A r \in Requesters : \A i \in 0..(MaxChildren - 1) :
          ReleaseByHolder(r) /\ i = Index(children, peer[r]) =>
              /\ err' = NoExc
              /\ children' = children
              /\ ~want'[children[i + 1]]
              /\ IF ScanWaiters(i, r) # {}
                 THEN \E k \in ScanWaiters(i, r) :
                        /\ \A j \in ScanWaiters(i, r) :
                              Ahead(pos + 1, k, Len(children)) <= Ahead(pos + 1, j, Len(children))
                        /\ pos' = k
                        /\ locked'
                        /\ \A j \in 0..(Len(children) - 1) : want'[children[j + 1]] <=> j = k
                 ELSE /\ ~locked'
                      /\ pos' = i
                      /\ \A j \in 0..(Len(children) - 1) : ~want'[children[j + 1]]]_vars

\* the lock has just passed from a releasing holder to a waiter found past
\* a slot that did not want it
ReleaseScanGrantsWitness ==
    \E r \in Requesters :
        /\ last = <<"push", r, FALSE>>
        /\ Len(children) = MaxChildren
        /\ peer[r] # None
        /\ InSeq(children, peer[r])
        /\ locked
        /\ Calls(trace, r, FALSE) = 1
        /\ want[children[pos + 1]]
        /\ Ahead(Index(children, peer[r]), pos, Len(children)) = 2

\* the handler call mutex(c, w) takes neither the grant branch nor the
\* release branch
NoBranch(c, w) == ~(w /\ ~locked) /\ ~(~w /\ want[c])

\* the coordinator's fields and every slot's want are those of st
CoordinatorAs(st) ==
    /\ st.exc = NoExc
    /\ st.children = children
    /\ st.pos = pos
    /\ st.locked = locked
    /\ \A c \in Slots : st.want[c] = want[c]

\* C21: a call of the per-slot handler other than want = true while the lock
\* is free and want = false from the holding slot leaves children, pos, locked
\* and every slot's want unchanged; a request pushed while another slot holds
\* stays pending (the requester's want true, its granted value false), and a
\* want = false pushed by a non-holder changes nothing at the coordinator.
CoordinatorNoOps ==
    [][/\ \A c \in Slots, w \in BOOLEAN :
            InSeq(children, c) /\ NoBranch(c, w) => CoordinatorAs(mutex(State, c, w))
       /\ \A r \in Requesters, w \in BOOLEAN, c \in Slots :
            /\ last' = <<"push", r, w>>
            /\ c = peer[r]
            /\ InSeq(children, c)
            /\ NoBranch(c, w)
            => /\ err' = NoExc
               /\ UNCHANGED <<children, pos, locked, peer>>
               /\ \A d \in Slots : want'[d] = want[d]
               /\ want'[r] = w
               /\ trace' = << <<"f", c, w>> >>
               /\ w /\ ~want[c] => SyncVal(State, r)' = "False"]_vars

\* a request has just been pushed while another slot holds the lock
CoordinatorNoOpsWitness ==
    \E r \in Requesters :
        /\ last = <<"push", r, TRUE>>
        /\ trace = << <<"f", peer[r], TRUE>> >>
        /\ peer[r] # None
        /\ InSeq(children, peer[r])
        /\ locked
        /\ want[r]
        /\ ~want[peer[r]]
        /\ children[pos + 1] # peer[r]
        /\ want[children[pos + 1]]

\* the step is m.attach_child(mutex=r) for a requester port without a peer
Joins(r) == last' = <<"attach_child", r, FALSE>> /\ peer[r] = None

\* C22: attach_child(r) appends a new slot at the end of children, wires its
\* Sync port to r, and the handshake calls the slot's handler exactly once,
\* with the want r had before the attach; so a requester whose want was true
\* joins with its request recorded: granted at once if the lock is free,
\* pending otherwise.
AttachChildBootstrap ==
    [][\A r \in Requesters : \A c \in Slots :
          Joins(r) /\ c = SlotAt(Len(children) + 1) =>
              /\ err' = NoExc
              /\ children' = Append(children, c)
              /\ peer'[c] = r
              /\ peer'[r] = c
              /\ CallsOn(trace', c) = 1
              /\ Calls(trace', c, want[r]) = 1
              /\ want[r] =>
                    /\ want'[r]
                    /\ locked'
                    /\ want'[c] = ~locked
                    /\ ~locked => pos' = Len(children)]_vars

\* the edge from output o to input d: each end names the other
Edge(o, d) == up[d] = o /\ InSeq(down[o], d)

\* the step is a detach of port q that returned normally
Detached(q) == last' = <<"detach", q, FALSE>> /\ err' = NoExc

\* C23: a detach from the input side removes the edge between the input and
\* its upstream output and no other; a detach from the output side removes
\* all edges of that output, every input formerly attached being left
\* without upstream, and no other; a Sync detach clears the peer of both
\* ends and changes no edge between other ports.
DetachScope ==
    [][/\ \A d \in Inputs : \A o \in Outputs :
            Detached(d) /\ up[d] = o =>
                /\ up'[d] = None
                /\ ~InSeq(down'[o], d)
                /\ \A p \in Outputs : \A e \in Inputs :
                      <<p, e>> # <<o, d>> => (Edge(p, e)' <=> Edge(p, e))
       /\ \A o \in Outputs :
            Detached(o) =>
                /\ down'[o] = <<>>
                /\ \A d \in Inputs : InSeq(down[o], d) => up'[d] = None
                /\ \A p \in Outputs \ {o} : \A e \in Inputs : Edge(p, e)' <=> Edge(p, e)
       /\ \A a \in GoPorts : \A b \in GoPorts :
            Detached(a) /\ peer[a] = b =>
                /\ peer'[a] = None
                /\ peer'[b] = None
                /\ \A x \in GoPorts : \A y \in GoPorts :
                      {x, y} # {a, b} /\ Paired(x, y) => Paired(x, y)']_vars

\* the hook calls recorded in tr, in order
Hooks(tr) == SelectSeq(tr, LAMBDA x : x[1] = "after_detach")

\* the hook calls of tr made for port q
HooksOn(tr, q) == Cardinality({k \in 1..Len(tr) : tr[k][1] = "after_detach" /\ tr[k][2] = q})

\* the inputs in the down list of o
Attached(o) == {d \in Inputs : InSeq(down[o], d)}

\* C24: a successful detach calls after_detach exactly once for each port of
\* a severed connection and for no other port: from the input side for the
\* upstream output and then the input, from the output side for each attached
\* input and the output, for Sync for the two ports; when a port's hook runs
\* the port no longer holds the connection.
DetachNotifies ==
    [][/\ \A d \in Inputs : \A o \in Outputs :
            Detached(d) /\ up[d] = o =>
                /\ Len(Hooks(trace')) = 2
                /\ Hooks(trace')[1][2] = o
                /\ ~InSeq(Hooks(trace')[1][3], d)
                /\ Hooks(trace')[2] = <<"after_detach", d, None>>
       /\ \A o \in Outputs :
            Detached(o) =>
                /\ Len(Hooks(trace')) = Cardinality(Attached(o)) + 1
                /\ \A d \in Attached(o) :
                      /\ HooksOn(trace', d) = 1
                      /\ \A k \in 1..Len(trace') : trace'[k][2] = d => trace'[k][3] = None
                /\ Hooks(trace')[Len(Hooks(trace'))] = <<"after_detach", o, <<>> >>
       /\ \A a \in GoPorts : \A b \in GoPorts :
            Detached(a) /\ peer[a] = b =>
                Hooks(trace') = << <<"after_detach", b, None>>, <<"after_detach", a, None>> >>]_vars

\* the places of the slots whose mutex.want is true
Holders == {k \in 1..Len(children) : want[children[k]]}

\* the step is the detach, from either end, of the slot at place k, which
\* does not hold the lock, while the slot at place h holds it
DetachesNonHolder(k, h) ==
    /\ \/ last' = <<"detach", children[k], FALSE>>
       \/ \E q \in Requesters : peer[q] = children[k] /\ last' = <<"detach", q, FALSE>>
    /\ locked
    /\ Holders = {h}
    /\ k # h

\* C25: between calls, locked is true iff exactly one slot has mutex.want
\* true, and that slot is children[pos]; no assertion of the coordinator
\* fails; 0 <= pos < len(children) whenever children is not empty; and the
\* detach of a slot that does not hold the lock, while the lock is held,
\* leaves the same requester holding and pos on its slot.
HolderPosition ==
    [][/\ locked <=> Cardinality(Holders) = 1
       /\ locked => Holders = {pos + 1}
       /\ err # "AssertionError"
       /\ children # <<>> => pos \in 0..(Len(children) - 1)
       /\ \A k \in 1..Len(children) : \A h \in 1..Len(children) : \A r \in Requesters :
            DetachesNonHolder(k, h) /\ peer[children[h]] = r =>
                /\ err' = NoExc
                /\ locked'
                /\ Len(children') = Len(children) - 1
                /\ Holders' = {After(h, k)}
                /\ pos' + 1 = After(h, k)
                /\ peer'[children'[pos' + 1]] = r]_vars

\* the slot at the head of the list has just been detached while a slot
\* behind it holds the lock: no handler ran, and pos moved down with the holder
HolderPositionWitness ==
    /\ last[1] = "detach"
    /\ err = NoExc
    /\ locked
    /\ Len(children) = MaxChildren - 1
    /\ HooksOn(trace, SlotAt(1)) = 1
    /\ HandlerCalls(trace) = {}
    /\ Holders = {pos + 1}

\* the number of places input d takes in the down list of output o
Places(o, d) == Cardinality({k \in 1..Len(down[o]) : down[o][k] = d})

\* C26: after any sequence of attach and detach calls every Sync port with a
\* peer is its peer's peer, and an input is in an output's down list exactly
\* once iff that output is the input's upstream; so the requester port of a
\* slot that holds the lock points at that slot.
WiringConsistent ==
    /\ \A p \in SyncPorts : peer[p] # None => peer[peer[p]] = p
    /\ \A o \in Outputs : \A d \in Inputs : Places(o, d) = 1 <=> up[d] = o
    /\ \A k \in Holders : peer[children[k]] # None /\ peer[peer[children[k]]] = children[k]

====
